---- MODULE Spec2Model ----
(***************************************************************************)
(* Model of mtqosadj (src/main.py): one run of main().  The run acquires a *)
(* RouterOS API session, reads the two DSL rates over SNMP, derives the     *)
(* queue max limits (rate minus 10%), looks both queues up, runs the set    *)
(* step for each queue, re-reads both queues and disconnects.               *)
(*                                                                         *)
(* Numbers that Python keeps as floats are kept here as fixed-point         *)
(* integers in units of 1/Scale.                                            *)
(***************************************************************************)
EXTENDS Integers, Sequences, FiniteSets, TLC

\* ------------------------------------------------------------------------
\* Bounds of the model
\* ------------------------------------------------------------------------

\* How many times the router's queue tree is changed by somebody else
\* while the run is talking to the router.
MaxRouterChanges == 1

\* ------------------------------------------------------------------------
\* Values
\* ------------------------------------------------------------------------

\* Python's None and "a value": optionals are sequences of length <= 1.
None == <<>>

Some(v) == <<v>>

\* Denominator of the fixed-point representation of Python floats.
Scale == 10

\* The percentage main() passes to subtract_percentage (lines 197-198).
Percentage == 10

\* The two rates of the log example in the module docstring (line 37).
DocDownRate == 50676736

DocUpRate == 10820608

\* The two configured queue names (DOWNLOAD_QUEUE_NAME, UPLOAD_QUEUE_NAME).
DOWNLOAD_QUEUE_NAME == "download"

UPLOAD_QUEUE_NAME == "upload"

QueueNames == {DOWNLOAD_QUEUE_NAME, UPLOAD_QUEUE_NAME}

\* What the SNMP agent can answer with: the values snmp_get can return for
\* the downstream and for the upstream OID.
DownRateValues == {-1, 0, 1, 10, DocDownRate}

UpRateValues == {-1, 0, 1, 10, DocUpRate}

\* The type of the number snmp_get returns (var_binds[0][1]): a plain Python
\* number ("num", as a fake rate source gives), or the SNMP library's integer
\* object ("asn1"), whose arithmetic re-wraps every result as an integer.
NumTypes == {"num", "asn1"}

\* Characters of a max-limit string: the digits 0..9, and 10 for a
\* character that is not a digit (as the M of "10M").
NonDigit == 10

\* The max-limit strings the router is taken to hold: "9", "45", "1M",
\* and no max-limit attribute at all.
MaxLimitValues == {None, Some(<<9>>), Some(<<4, 5>>), Some(<<1, NonDigit>>)}

\* The id attribute of an entry: missing, or the RouterOS id "*1".
IdValues == {None, Some("*1")}

\* An entry of /queue/tree, as the API hands it over (a dict).
Entries == [id : IdValues, maxlimit : MaxLimitValues]

\* What get(name=...) can return for one name: a list of no or one entry.
EntryLists == {<<>>} \cup {<<e>> : e \in Entries}

\* ------------------------------------------------------------------------
\* State
\* ------------------------------------------------------------------------
VARIABLES
    pc,          \* position of main()
    exitStatus,  \* None while running, Some(status) once the process ended
    exc,         \* name of the uncaught exception that ended the run, or ""
    session,     \* "none", "open" (get_api returned), "closed" (disconnect)
    tree,        \* the router's /queue/tree: name -> list of entries
    changes,     \* number of foreign changes of the tree so far
    numType,     \* type of the numbers the SNMP read returns
    dsl_downstream_act_rate,
    dsl_upstream_act_rate,
    mt_down_queue_set_max_limit,    \* fixed point, units of 1/Scale
    mt_up_queue_set_max_limit,      \* fixed point, units of 1/Scale
    current,     \* name -> <<id, max-limit>> of the first lookup
    applied,     \* name -> the int of the re-read max-limit
    requests,    \* requests sent to the router and their replies, in order
    reads,       \* number of SNMP reads issued
    log          \* what the run printed and logged, in order

vars == <<pc, exitStatus, exc, session, tree, changes, numType,
          dsl_downstream_act_rate, dsl_upstream_act_rate,
          mt_down_queue_set_max_limit, mt_up_queue_set_max_limit,
          current, applied, requests, reads, log>>

\* ------------------------------------------------------------------------
\* Pure functions
\* ------------------------------------------------------------------------

\* Python truthiness of an optional string: None and "" are false.
TruthyStr(x) == x # None /\ x[1] # ""

\* Python truthiness of an optional number: None and 0 are false.
TruthyNum(x) == x # None /\ x[1] # 0

\* percentage / 100, a float: in units of 1/Scale.
Fraction(percentage) == (percentage * Scale) \div 100

\* subtract_percentage with the result cut down to a whole number.
subtract_percentage_Floored(number, percentage, type) ==
    ((number * Scale - number * Fraction(percentage)) \div Scale) * Scale

\* subtract_percentage(number, percentage), in units of 1/Scale.
\* For a plain number the product and the difference are floats.  For the
\* SNMP integer object the product is re-wrapped as an integer (int()
\* truncates it), and the difference is an integer.
subtract_percentage(number, percentage, type) ==
    IF type = "num"
    THEN LET amount_to_subtract == number * Fraction(percentage)
         IN  number * Scale - amount_to_subtract
    ELSE LET amount_to_subtract == (number * Fraction(percentage)) \div Scale
         IN  (number - amount_to_subtract) * Scale

\* Whether s is text int() accepts: one or more digits.
IsNumeric(s) == Len(s) > 0 /\ \A i \in 1..Len(s) : s[i] # NonDigit

RECURSIVE ParseInt(_)
\* int(s) for a string of digits.
ParseInt(s) ==
    IF Len(s) = 0 THEN 0
    ELSE 10 * ParseInt(SubSeq(s, 1, Len(s) - 1)) + s[Len(s)]

\* get_queue_tree_attributes(api, queue_name): <<queue_id, max_limit_value>>.
get_queue_tree_attributes(target_queue) ==
    IF target_queue # <<>>
    THEN <<target_queue[1].id, target_queue[1].maxlimit>>
    ELSE <<None, None>>

\* ------------------------------------------------------------------------
\* The run
\* ------------------------------------------------------------------------

Line(level, msg, args) == [level |-> level, msg |-> msg, args |-> args]

\* A request of the run to the router, with the router's reply: the only
\* request the code sends is get(name=...) on /queue/tree.
Lookup(name, reply) == [op |-> "get", name |-> name, reply |-> reply]

Init ==
    /\ pc = "get_api"
    /\ exitStatus = None
    /\ exc = ""
    /\ session = "none"
    /\ tree \in [QueueNames -> EntryLists]
    /\ changes = 0
    /\ numType \in NumTypes
    /\ dsl_downstream_act_rate = None
    /\ dsl_upstream_act_rate = None
    /\ mt_down_queue_set_max_limit = None
    /\ mt_up_queue_set_max_limit = None
    /\ current = [n \in QueueNames |-> None]
    /\ applied = [n \in QueueNames |-> None]
    /\ requests = <<>>
    /\ reads = 0
    /\ log = <<>>

\* The process ends with an uncaught exception: traceback, exit status 1.
Raise(name) ==
    /\ pc' = "done"
    /\ exitStatus' = Some(1)
    /\ exc' = name

\* exit(1)
Exit1 ==
    /\ pc' = "done"
    /\ exitStatus' = Some(1)
    /\ exc' = exc

\* Line 164: api = api_pool.get_api() returns a session.
GetApi ==
    /\ pc = "get_api"
    /\ pc' = "snmp_down"
    /\ session' = "open"
    /\ UNCHANGED <<exitStatus, exc, tree, changes, numType,
                   dsl_downstream_act_rate, dsl_upstream_act_rate,
                   mt_down_queue_set_max_limit, mt_up_queue_set_max_limit,
                   current, applied, requests, reads, log>>

\* get_api() fails, the failure is swallowed and the run goes on.
GetApiFail_Swallowed ==
    /\ pc = "get_api"
    /\ pc' = "snmp_down"
    /\ exc' = "RouterOsApiConnectionError"
    /\ UNCHANGED <<exitStatus, session, tree, changes, numType,
                   dsl_downstream_act_rate, dsl_upstream_act_rate,
                   mt_down_queue_set_max_limit, mt_up_queue_set_max_limit,
                   current, applied, requests, reads, log>>

\* Line 164: get_api() raises (router unreachable, login refused); nothing
\* catches it.
GetApiFail ==
    /\ pc = "get_api"
    /\ Raise("RouterOsApiConnectionError")
    /\ UNCHANGED <<session, tree, changes, numType,
                   dsl_downstream_act_rate, dsl_upstream_act_rate,
                   mt_down_queue_set_max_limit, mt_up_queue_set_max_limit,
                   current, applied, requests, reads, log>>

\* The rate check with "<" for "<=": a rate of zero passes.
InvalidRate_ZeroPasses(rate) == rate = None \/ rate[1] < 0

\* Lines 180 and 184: "rate is None or rate <= 0".
InvalidRate(rate) == rate = None \/ rate[1] <= 0

\* Lines 174 and 175, one call of snmp_get inside the try of lines 173-178.
\* The call raises (caught at line 176: print, exit(1)), or reports an
\* error indication (prints it at line 103 and returns None), or returns the
\* value of the first variable binding.
SnmpGetDown ==
    /\ pc = "snmp_down"
    /\ reads' = reads + 1
    /\ \/ /\ log' = Append(log, Line("STDOUT", "Error", <<>>))
          /\ Exit1
          /\ UNCHANGED dsl_downstream_act_rate
       \/ /\ log' = Append(log, Line("STDOUT", "SNMP Error", <<>>))
          /\ dsl_downstream_act_rate' = None
          /\ pc' = "snmp_up"
          /\ UNCHANGED <<exitStatus, exc>>
       \/ /\ \E v \in DownRateValues : dsl_downstream_act_rate' = Some(v)
          /\ pc' = "snmp_up"
          /\ UNCHANGED <<exitStatus, exc, log>>
    /\ UNCHANGED <<session, tree, changes, numType, dsl_upstream_act_rate,
                   mt_down_queue_set_max_limit, mt_up_queue_set_max_limit,
                   current, applied, requests>>

SnmpGetUp ==
    /\ pc = "snmp_up"
    /\ reads' = reads + 1
    /\ \/ /\ log' = Append(log, Line("STDOUT", "Error", <<>>))
          /\ Exit1
          /\ UNCHANGED dsl_upstream_act_rate
       \/ /\ log' = Append(log, Line("STDOUT", "SNMP Error", <<>>))
          /\ dsl_upstream_act_rate' = None
          /\ pc' = "check_down"
          /\ UNCHANGED <<exitStatus, exc>>
       \/ /\ \E v \in UpRateValues : dsl_upstream_act_rate' = Some(v)
          /\ pc' = "check_down"
          /\ UNCHANGED <<exitStatus, exc, log>>
    /\ UNCHANGED <<session, tree, changes, numType, dsl_downstream_act_rate,
                   mt_down_queue_set_max_limit, mt_up_queue_set_max_limit,
                   current, applied, requests>>

\* Lines 180-182.
CheckDown ==
    /\ pc = "check_down"
    /\ IF InvalidRate(dsl_downstream_act_rate)
       THEN /\ log' = Append(log, Line("ERROR",
                        "Downstream attainable rate not found", <<>>))
            /\ Exit1
       ELSE /\ pc' = "check_up"
            /\ UNCHANGED <<exitStatus, exc, log>>
    /\ UNCHANGED <<session, tree, changes, numType,
                   dsl_downstream_act_rate, dsl_upstream_act_rate,
                   mt_down_queue_set_max_limit, mt_up_queue_set_max_limit,
                   current, applied, requests, reads>>

\* Lines 184-186.
CheckUp ==
    /\ pc = "check_up"
    /\ IF InvalidRate(dsl_upstream_act_rate)
       THEN /\ log' = Append(log, Line("ERROR",
                        "Upstream attainable rate not found", <<>>))
            /\ Exit1
       ELSE /\ pc' = "compute"
            /\ UNCHANGED <<exitStatus, exc, log>>
    /\ UNCHANGED <<session, tree, changes, numType,
                   dsl_downstream_act_rate, dsl_upstream_act_rate,
                   mt_down_queue_set_max_limit, mt_up_queue_set_max_limit,
                   current, applied, requests, reads>>

\* Lines 189-203: the INFO line with the rates and the two proposed limits.
\* (The DEBUG line of line 200 is below the default log level.)
Compute ==
    /\ pc = "compute"
    /\ log' = Append(log, Line("INFO", "DSL Downstream/Upstream actual rates",
                 <<dsl_downstream_act_rate[1], dsl_upstream_act_rate[1]>>))
    /\ mt_down_queue_set_max_limit' =
           Some(subtract_percentage(dsl_downstream_act_rate[1], Percentage,
                                    numType))
    /\ mt_up_queue_set_max_limit' =
           Some(subtract_percentage(dsl_upstream_act_rate[1], Percentage,
                                    numType))
    /\ pc' = "get_down"
    /\ UNCHANGED <<exitStatus, exc, session, tree, changes, numType,
                   dsl_downstream_act_rate, dsl_upstream_act_rate,
                   current, applied, requests, reads>>

\* Line 205.
GetDown ==
    /\ pc = "get_down"
    /\ requests' = Append(requests, Lookup(DOWNLOAD_QUEUE_NAME,
                                        tree[DOWNLOAD_QUEUE_NAME]))
    /\ current' = [current EXCEPT ![DOWNLOAD_QUEUE_NAME] =
                      get_queue_tree_attributes(tree[DOWNLOAD_QUEUE_NAME])]
    /\ pc' = "get_up"
    /\ UNCHANGED <<exitStatus, exc, session, tree, changes, numType,
                   dsl_downstream_act_rate, dsl_upstream_act_rate,
                   mt_down_queue_set_max_limit, mt_up_queue_set_max_limit,
                   applied, reads, log>>

\* Lines 206-216: the second lookup, then the CURRENT line or the warning.
GetUp ==
    /\ pc = "get_up"
    /\ requests' = Append(requests, Lookup(UPLOAD_QUEUE_NAME,
                                        tree[UPLOAD_QUEUE_NAME]))
    /\ current' = [current EXCEPT ![UPLOAD_QUEUE_NAME] =
                      get_queue_tree_attributes(tree[UPLOAD_QUEUE_NAME])]
    /\ log' = IF /\ current'[DOWNLOAD_QUEUE_NAME][1] # None
                 /\ current'[UPLOAD_QUEUE_NAME][1] # None
              THEN Append(log, Line("INFO",
                       "Download/Upload Queue CURRENT Max Limit",
                       <<current'[DOWNLOAD_QUEUE_NAME][2],
                         current'[UPLOAD_QUEUE_NAME][2]>>))
              ELSE Append(log, Line("WARNING",
                       "Queue Tree entry not found.", <<>>))
    /\ pc' = "set_down"
    /\ UNCHANGED <<exitStatus, exc, session, tree, changes, numType,
                   dsl_downstream_act_rate, dsl_upstream_act_rate,
                   mt_down_queue_set_max_limit, mt_up_queue_set_max_limit,
                   applied, reads>>

\* The set step trusting the id main() looked up earlier (lines 205-206)
\* instead of looking the queue up itself.
set_queue_tree_max_limit_StaleId(queue_name, max_limit, next) ==
    /\ requests' = Append(requests, Lookup(queue_name, tree[queue_name]))
    /\ LET queue_id == current[queue_name][1]
       IN  IF TruthyStr(queue_id) /\ TruthyNum(max_limit)
           THEN log' = Append(log, Line("INFO", "Setting Queue",
                            <<queue_name, max_limit[1]>>))
           ELSE log' = Append(log, Line("ERROR",
                            "Queue ID or Max Limit is not set", <<>>))
    /\ pc' = next
    /\ UNCHANGED <<exitStatus, exc>>

\* set_queue_tree_max_limit(api, queue_name, max_limit), lines 120-135, and
\* where main() goes next.  queue_id is assigned only when the lookup found
\* an entry; with no entry, line 129 reads an unbound local.  The request
\* that would change the queue (line 131) is commented out: the only request
\* the function sends is its lookup.
set_queue_tree_max_limit(queue_name, max_limit, next) ==
    /\ requests' = Append(requests, Lookup(queue_name, tree[queue_name]))
    /\ LET target_queue == tree[queue_name]
       IN  IF target_queue = <<>>
           THEN /\ Raise("UnboundLocalError")
                /\ UNCHANGED log
           ELSE LET queue_id == target_queue[1].id
                IN  /\ IF TruthyStr(queue_id) /\ TruthyNum(max_limit)
                       THEN log' = Append(log, Line("INFO", "Setting Queue",
                                        <<queue_name, max_limit[1]>>))
                       ELSE log' = Append(log, Line("ERROR",
                                        "Queue ID or Max Limit is not set",
                                        <<>>))
                    /\ pc' = next
                    /\ UNCHANGED <<exitStatus, exc>>

\* Line 219.
SetDown ==
    /\ pc = "set_down"
    /\ set_queue_tree_max_limit(DOWNLOAD_QUEUE_NAME,
                                mt_down_queue_set_max_limit, "set_up")
    /\ UNCHANGED <<session, tree, changes, numType,
                   dsl_downstream_act_rate, dsl_upstream_act_rate,
                   mt_down_queue_set_max_limit, mt_up_queue_set_max_limit,
                   current, applied, reads>>

\* Line 222.
SetUp ==
    /\ pc = "set_up"
    /\ set_queue_tree_max_limit(UPLOAD_QUEUE_NAME,
                                mt_up_queue_set_max_limit, "reread_down")
    /\ UNCHANGED <<session, tree, changes, numType,
                   dsl_downstream_act_rate, dsl_upstream_act_rate,
                   mt_down_queue_set_max_limit, mt_up_queue_set_max_limit,
                   current, applied, reads>>

\* The re-read without the int(): a missing max-limit stays None and the
\* run goes on.
Reread_NoInt(queue_name, next) ==
    /\ requests' = Append(requests, Lookup(queue_name, tree[queue_name]))
    /\ LET max_limit_value == get_queue_tree_attributes(tree[queue_name])[2]
       IN  IF max_limit_value = None \/ ~IsNumeric(max_limit_value[1])
           THEN UNCHANGED applied
           ELSE applied' = [applied EXCEPT ![queue_name] =
                               Some(ParseInt(max_limit_value[1]))]
    /\ pc' = next
    /\ UNCHANGED <<exitStatus, exc>>

\* int(get_queue_tree_attributes(api, queue_name)[1]), lines 226 and 227,
\* and where main() goes next: int(None) is a TypeError, int() of text that
\* is not a number is a ValueError.
Reread(queue_name, next) ==
    /\ requests' = Append(requests, Lookup(queue_name, tree[queue_name]))
    /\ LET max_limit_value == get_queue_tree_attributes(tree[queue_name])[2]
       IN  IF max_limit_value = None
           THEN /\ Raise("TypeError")
                /\ UNCHANGED applied
           ELSE IF ~IsNumeric(max_limit_value[1])
           THEN /\ Raise("ValueError")
                /\ UNCHANGED applied
           ELSE /\ applied' = [applied EXCEPT ![queue_name] =
                                  Some(ParseInt(max_limit_value[1]))]
                /\ pc' = next
                /\ UNCHANGED <<exitStatus, exc>>

\* Line 226.
RereadDown ==
    /\ pc = "reread_down"
    /\ Reread(DOWNLOAD_QUEUE_NAME, "reread_up")
    /\ UNCHANGED <<session, tree, changes, numType,
                   dsl_downstream_act_rate, dsl_upstream_act_rate,
                   mt_down_queue_set_max_limit, mt_up_queue_set_max_limit,
                   current, reads, log>>

\* Line 227.
RereadUp ==
    /\ pc = "reread_up"
    /\ Reread(UPLOAD_QUEUE_NAME, "summary")
    /\ UNCHANGED <<session, tree, changes, numType,
                   dsl_downstream_act_rate, dsl_upstream_act_rate,
                   mt_down_queue_set_max_limit, mt_up_queue_set_max_limit,
                   current, reads, log>>

\* The desired limit of a queue, as main() passes it to the set step.
DesiredLimit(queue_name) ==
    IF queue_name = DOWNLOAD_QUEUE_NAME
    THEN mt_down_queue_set_max_limit
    ELSE mt_up_queue_set_max_limit

\* The summary with a comparison of the re-read and the desired limits,
\* warning when they differ.
Summary_WarnOnMismatch ==
    /\ pc = "summary"
    /\ log' = IF \E n \in QueueNames :
                    applied[n][1] * Scale # DesiredLimit(n)[1]
              THEN Append(log, Line("WARNING", "Max Limit mismatch", <<>>))
              ELSE Append(log, Line("INFO",
                       "Download/Uploads Queue APPLIED Max Limits",
                       <<applied[DOWNLOAD_QUEUE_NAME][1],
                         applied[UPLOAD_QUEUE_NAME][1]>>))
    /\ pc' = "disconnect"
    /\ UNCHANGED <<exitStatus, exc, session, tree, changes, numType,
                   dsl_downstream_act_rate, dsl_upstream_act_rate,
                   mt_down_queue_set_max_limit, mt_up_queue_set_max_limit,
                   current, applied, requests, reads>>

\* Lines 229-237: the APPLIED line, or the warning.
Summary ==
    /\ pc = "summary"
    /\ log' = IF /\ applied[DOWNLOAD_QUEUE_NAME] # None
                 /\ applied[UPLOAD_QUEUE_NAME] # None
              THEN Append(log, Line("INFO",
                       "Download/Uploads Queue APPLIED Max Limits",
                       <<applied[DOWNLOAD_QUEUE_NAME][1],
                         applied[UPLOAD_QUEUE_NAME][1]>>))
              ELSE Append(log, Line("WARNING",
                       "Queue Tree entry not found.", <<>>))
    /\ pc' = "disconnect"
    /\ UNCHANGED <<exitStatus, exc, session, tree, changes, numType,
                   dsl_downstream_act_rate, dsl_upstream_act_rate,
                   mt_down_queue_set_max_limit, mt_up_queue_set_max_limit,
                   current, applied, requests, reads>>

\* Line 239, and the return of main(): exit status 0.
Disconnect ==
    /\ pc = "disconnect"
    /\ session' = "closed"
    /\ pc' = "done"
    /\ exitStatus' = Some(0)
    /\ UNCHANGED <<exc, tree, changes, numType,
                   dsl_downstream_act_rate, dsl_upstream_act_rate,
                   mt_down_queue_set_max_limit, mt_up_queue_set_max_limit,
                   current, applied, requests, reads, log>>

\* Somebody else changes one queue of the router's tree between two
\* requests of the run (the router is shared; the run holds no lock on it).
RouterChange ==
    /\ pc \in {"get_up", "set_down", "set_up", "reread_down", "reread_up"}
    /\ changes < MaxRouterChanges
    /\ changes' = changes + 1
    /\ \E n \in QueueNames, l \in EntryLists :
          /\ l # tree[n]
          /\ tree' = [tree EXCEPT ![n] = l]
    /\ UNCHANGED <<pc, exitStatus, exc, session, numType,
                   dsl_downstream_act_rate, dsl_upstream_act_rate,
                   mt_down_queue_set_max_limit, mt_up_queue_set_max_limit,
                   current, applied, requests, reads, log>>

Next ==
    \/ GetApi
    \/ GetApiFail
    \/ SnmpGetDown
    \/ SnmpGetUp
    \/ CheckDown
    \/ CheckUp
    \/ Compute
    \/ GetDown
    \/ GetUp
    \/ SetDown
    \/ SetUp
    \/ RereadDown
    \/ RereadUp
    \/ Summary
    \/ Disconnect
    \/ RouterChange

Spec == Init /\ [][Next]_vars

\* ------------------------------------------------------------------------
\* Vocabulary of the properties
\* ------------------------------------------------------------------------

Done == pc = "done"

\* A rate that was read and is positive.
ValidRate(rate) == rate # None /\ rate[1] > 0

BothRatesValid ==
    ValidRate(dsl_downstream_act_rate) /\ ValidRate(dsl_upstream_act_rate)

\* A rate read has failed, or has returned a value that is not positive.
RateFailure ==
    \/ reads >= 1 /\ ~ValidRate(dsl_downstream_act_rate)
    \/ reads >= 2 /\ ~ValidRate(dsl_upstream_act_rate)

\* The requests sent so far that change queue n.
Sets(n) ==
    {i \in 1..Len(requests) : requests[i].op = "set" /\ requests[i].name = n}

\* The lookups of queue n sent so far: the first is the one of lines
\* 205-206, the second the one of the set step, the third the re-read.
LookupsOf(n) ==
    {i \in 1..Len(requests) : requests[i].op = "get" /\ requests[i].name = n}

SetReached(n) == Cardinality(LookupsOf(n)) >= 2

RereadReached(n) == Cardinality(LookupsOf(n)) >= 3

\* The "Setting Queue" lines logged so far for queue n.
Announcements(n) ==
    {i \in 1..Len(log) : log[i].msg = "Setting Queue" /\ log[i].args[1] = n}

\* This step logs the "Setting Queue" line for queue n.
AnnouncedNow(n) ==
    /\ Len(log') = Len(log) + 1
    /\ log'[Len(log')].msg = "Setting Queue"
    /\ log'[Len(log')].args[1] = n

\* The re-read value of queue n differs from the desired limit.
Mismatch(n) ==
    applied[n] # None /\ applied[n][1] * Scale # DesiredLimit(n)[1]

Other(n) == IF n = DOWNLOAD_QUEUE_NAME THEN UPLOAD_QUEUE_NAME
            ELSE DOWNLOAD_QUEUE_NAME

\* ------------------------------------------------------------------------
\* Properties
\* ------------------------------------------------------------------------

\* C1: once a rate read has failed or returned a value <= 0, the run never
\* gets past the rate checks: no request that changes a queue is sent, no
\* set step is announced, and the process ends with exit status 1.
C1_BadRateNothingSent ==
    RateFailure =>
        /\ pc \in {"snmp_up", "check_down", "check_up", "done"}
        /\ \A n \in QueueNames : Sets(n) = {} /\ Announcements(n) = {}
        /\ Done => exitStatus = Some(1)

C1_Witness ==
    /\ Done
    /\ session = "open"
    /\ reads = 2
    /\ dsl_downstream_act_rate = Some(0)
    /\ exitStatus = Some(1)

\* C2 (as claimed): with two valid rates, an unchanging router and exactly
\* one of the two queues absent, the absence is logged and the present
\* queue's set step and re-read are both reached.
C2_OtherQueueReconciled ==
    \A a \in QueueNames :
        ( /\ Done
          /\ changes = 0
          /\ BothRatesValid
          /\ tree[a] = <<>>
          /\ tree[Other(a)] # <<>> )
        => /\ \E i \in 1..Len(log) : log[i].level \in {"WARNING", "ERROR"}
           /\ SetReached(Other(a))
           /\ RereadReached(Other(a))

\* C3 (as claimed): a run that acquired the session has released it when
\* the process has ended.
C3_SessionReleased ==
    (Done /\ session # "none") => session = "closed"

\* C4 (as claimed): a run with two valid rates and both queues present sends
\* exactly one request that sets the max-limit of each queue, carrying that
\* queue's desired limit.
C4_OneSetPerQueue ==
    ( /\ Done
      /\ exitStatus = Some(0)
      /\ changes = 0
      /\ BothRatesValid
      /\ \A n \in QueueNames : tree[n] # <<>> )
    => \A n \in QueueNames :
          /\ Cardinality(Sets(n)) = 1
          /\ \A i \in Sets(n) : requests[i].max_limit = DesiredLimit(n)[1]

\* C5 (as claimed): on an unchanging router, the value re-read for a queue
\* whose set step was announced equals the desired limit of that queue.
C5_RoundTrip ==
    \A n \in QueueNames :
        (changes = 0 /\ Announcements(n) # {} /\ applied[n] # None)
        => applied[n][1] * Scale = DesiredLimit(n)[1]

\* The desired limit L (in units of 1/Scale) is floor(r * 0.9), and < r.
IsFloorLimit(r, L) ==
    /\ L = ((r * (Scale - Fraction(Percentage))) \div Scale) * Scale
    /\ L < r * Scale

\* C6 (as claimed): the desired limit of either direction is the integer
\* floor(r * (1 - 0.10)) and is strictly less than the rate r; 50676736
\* gives 45609062 and 10820608 gives 9738547.
C6_FloorLimit ==
    /\ mt_down_queue_set_max_limit # None =>
          /\ IsFloorLimit(dsl_downstream_act_rate[1],
                          mt_down_queue_set_max_limit[1])
          /\ dsl_downstream_act_rate[1] = DocDownRate =>
                 mt_down_queue_set_max_limit[1] = 45609062 * Scale
    /\ mt_up_queue_set_max_limit # None =>
          /\ IsFloorLimit(dsl_upstream_act_rate[1],
                          mt_up_queue_set_max_limit[1])
          /\ dsl_upstream_act_rate[1] = DocUpRate =>
                 mt_up_queue_set_max_limit[1] = 9738547 * Scale

\* The desired limit L (in units of 1/Scale) is r - r * (10 / 100) in the
\* arithmetic of the rate's type: exactly 0.9 r for a plain number, and
\* r - floor(r / 10) for the SNMP integer object.  Either way it lies in
\* [0.9 r, 0.9 r + 1), is at most r, and is less than r from r = 10 on.
IsCodeLimit(r, L) ==
    /\ numType = "num" => L = 9 * r /\ L < r * Scale
    /\ numType = "asn1" => L = (r - (r \div 10)) * Scale
    /\ 9 * r <= L /\ L < 9 * r + Scale
    /\ L <= r * Scale
    /\ r >= 10 => L < r * Scale

\* C6 (amended): the desired limit of either direction is r - r * (10/100)
\* in the arithmetic of the rate's type, with no floor taken; it is the
\* value the set step announces; 50676736 gives 45609062.4 or 45609063 and
\* 10820608 gives 9738547.2 or 9738548.
C6_CodeLimit ==
    /\ mt_down_queue_set_max_limit # None =>
          /\ IsCodeLimit(dsl_downstream_act_rate[1],
                         mt_down_queue_set_max_limit[1])
          /\ dsl_downstream_act_rate[1] = DocDownRate =>
                 mt_down_queue_set_max_limit[1] =
                     IF numType = "num" THEN 456090624 ELSE 456090630
    /\ mt_up_queue_set_max_limit # None =>
          /\ IsCodeLimit(dsl_upstream_act_rate[1],
                         mt_up_queue_set_max_limit[1])
          /\ dsl_upstream_act_rate[1] = DocUpRate =>
                 mt_up_queue_set_max_limit[1] =
                     IF numType = "num" THEN 97385472 ELSE 97385480
    /\ \A n \in QueueNames : \A i \in Announcements(n) :
          log[i].args[2] = DesiredLimit(n)[1]

C6_Witness ==
    /\ dsl_downstream_act_rate = Some(DocDownRate)
    /\ dsl_upstream_act_rate = Some(1)
    /\ numType = "asn1"
    /\ Announcements(DOWNLOAD_QUEUE_NAME) # {}
    /\ Announcements(UPLOAD_QUEUE_NAME) # {}

\* C7: a step that announces the set of a queue is one in which the router
\* has that queue at that moment, with a non-empty id, and in which that
\* very step looked the queue up and got that entry.
C7_SetOnlyOnExistingQueue ==
    [][\A n \in QueueNames :
          AnnouncedNow(n) =>
              /\ tree[n] # <<>>
              /\ TruthyStr(tree[n][1].id)
              /\ requests' = Append(requests, Lookup(n, tree[n]))
              /\ Sets(n)' = {}]_vars

\* The set of a queue is announced although the first lookup of the run
\* did not find that queue.
C7_Witness ==
    /\ Announcements(DOWNLOAD_QUEUE_NAME) # {}
    /\ requests[1].reply = <<>>
    /\ tree[DOWNLOAD_QUEUE_NAME] # <<>>

\* C8: no rate is read and no queue is looked up before the session is
\* acquired; when get_api() fails the process ends with exit status 1,
\* without a rate read, a queue lookup, a set or a re-read.
C8_SessionFirst ==
    /\ (reads > 0 \/ requests # <<>>) => session # "none"
    /\ exc = "RouterOsApiConnectionError" =>
          /\ Done
          /\ exitStatus = Some(1)
          /\ session = "none"
          /\ reads = 0
          /\ requests = <<>>
          /\ log = <<>>

C8_Witness ==
    Done /\ exc = "RouterOsApiConnectionError" /\ exitStatus = Some(1)

Found(i) == requests[i].reply # <<>>

FoundWithLimit(i) == Found(i) /\ requests[i].reply[1].maxlimit # None

\* The summary is reached only with both applied values set, so its
\* warning branch (line 237) is never taken.
FinalWarningUnreachable ==
    pc = "summary" =>
        applied[DOWNLOAD_QUEUE_NAME] # None /\ applied[UPLOAD_QUEUE_NAME] # None

\* C10 (as claimed): main returns normally only when both rates are valid
\* and every lookup of the run found its queue with a max-limit; the final
\* warning branch is never reached.
C10_EveryLookupFound ==
    /\ (Done /\ exitStatus = Some(0)) =>
          /\ BothRatesValid
          /\ \A i \in 1..Len(requests) : FoundWithLimit(i)
    /\ FinalWarningUnreachable

\* C10 (amended): main returns normally only when both rates are valid,
\* each queue is found by the lookup of its set step, and each queue is
\* found with a max-limit that is a number by its re-read; the two first
\* lookups may find nothing.  On a router that nobody changes during the
\* run, every lookup then found its queue with a max-limit.  The final
\* warning branch is never reached.
C10_SetAndRereadFound ==
    /\ (Done /\ exitStatus = Some(0)) =>
          /\ BothRatesValid
          /\ session = "closed"
          /\ Len(requests) = 6
          /\ \A i \in 3..6 : Found(i)
          /\ \A i \in 5..6 : /\ FoundWithLimit(i)
                             /\ IsNumeric(requests[i].reply[1].maxlimit[1])
          /\ changes = 0 => \A i \in 1..6 : FoundWithLimit(i)
    /\ FinalWarningUnreachable

\* main returned normally although its first lookup found no queue.
C10_Witness ==
    /\ Done
    /\ exitStatus = Some(0)
    /\ ~Found(1)

====
